---- MODULE Spec2Model ----
(***************************************************************************)
(* A model of fsm.EventCorrelator (src/fsm/correlator.go): the four keyed  *)
(* indices, the mutation entry point Track (RemoveCorrelation followed by  *)
(* Correlate) and the four read operations.  Go maps are modelled with     *)
(* their nil / non-nil distinction, Go pointers with the value Nil, and a  *)
(* run-time panic (nil pointer dereference, assignment to an entry of a    *)
(* nil map) with a flag that stops the run.                                *)
(***************************************************************************)
EXTENDS Integers, Sequences, FiniteSets, TLC

\* Number of history events tracked in one run (event ids 1..MaxEvents).
MaxEvents == 4

(***************************************************************************)
(* Input domains: the attribute values history events are drawn from.      *)
(***************************************************************************)
ActivityIDs == {"", "a1", "a2"}
ActivityTypes == {[Name |-> "foo", Version |-> "1"], [Name |-> "bar", Version |-> "2"]}
\* The (activity id, activity type) pairs the scheduled events carry.
ScheduledAttributes ==
    {[ActivityID |-> "", ActivityType |-> [Name |-> "foo", Version |-> "1"]],
     [ActivityID |-> "a1", ActivityType |-> [Name |-> "foo", Version |-> "1"]],
     [ActivityID |-> "a2", ActivityType |-> [Name |-> "bar", Version |-> "2"]]}
SignalNames == {"N", "N->W"}
WorkflowIDs == {"W", "W->W"}

(***************************************************************************)
(* Event kinds (the swf.EventType* constants the code dispatches on).      *)
(***************************************************************************)
EventTypeActivityTaskScheduled == "ActivityTaskScheduled"
EventTypeActivityTaskCompleted == "ActivityTaskCompleted"
EventTypeActivityTaskFailed == "ActivityTaskFailed"
EventTypeActivityTaskTimedOut == "ActivityTaskTimedOut"
EventTypeActivityTaskCanceled == "ActivityTaskCanceled"
EventTypeSignalExternalWorkflowExecutionInitiated == "SignalExternalWorkflowExecutionInitiated"
EventTypeExternalWorkflowExecutionSignaled == "ExternalWorkflowExecutionSignaled"
EventTypeSignalExternalWorkflowExecutionFailed == "SignalExternalWorkflowExecutionFailed"
\* A kind none of the code's cases names.
EventTypeWorkflowExecutionStarted == "WorkflowExecutionStarted"

ActivityTerminalTypes ==
    {EventTypeActivityTaskCompleted, EventTypeActivityTaskFailed,
     EventTypeActivityTaskTimedOut, EventTypeActivityTaskCanceled}
SignalTerminalTypes ==
    {EventTypeExternalWorkflowExecutionSignaled,
     EventTypeSignalExternalWorkflowExecutionFailed}
OtherTypes == {EventTypeWorkflowExecutionStarted}

(***************************************************************************)
(* History events.  Only the attributes the correlator reads are kept.     *)
(***************************************************************************)
ScheduledEvent(id, aid, at) ==
    [EventType |-> EventTypeActivityTaskScheduled, EventID |-> id,
     ActivityID |-> aid, ActivityType |-> at]
ActivityTerminalEvent(t, id, ref) ==
    [EventType |-> t, EventID |-> id, ScheduledEventID |-> ref]
InitiatedEvent(id, n, w) ==
    [EventType |-> EventTypeSignalExternalWorkflowExecutionInitiated, EventID |-> id,
     SignalName |-> n, WorkflowID |-> w]
SignalTerminalEvent(t, id, ref) ==
    [EventType |-> t, EventID |-> id, InitiatedEventID |-> ref]
OtherEvent(t, id) ==
    [EventType |-> t, EventID |-> id]

\* The events a history can hold at position id: a terminal event references
\* an earlier event id, or 0 for an id the correlator never saw.
EventsAt(id) ==
    {ScheduledEvent(id, x.ActivityID, x.ActivityType) : x \in ScheduledAttributes}
    \cup {ActivityTerminalEvent(t, id, ref) : t \in ActivityTerminalTypes, ref \in 0..(id - 1)}
    \cup {InitiatedEvent(id, n, w) : n \in SignalNames, w \in WorkflowIDs}
    \cup {SignalTerminalEvent(t, id, ref) : t \in SignalTerminalTypes, ref \in 0..(id - 1)}
    \cup {OtherEvent(t, id) : t \in OtherTypes}

(***************************************************************************)
(* Go values: pointers, maps.                                              *)
(***************************************************************************)
\* The nil pointer (*ActivityInfo, *SignalInfo).
Nil == [isNil |-> TRUE]
ActivityInfoValue(aid, at) == [ActivityID |-> aid, ActivityType |-> at]
SignalInfoValue(n, w) == [SignalName |-> n, WorkflowID |-> w]

EmptyFn == [k \in {} |-> k]
\* A map is nil (never made) or holds entries.
NilMap == [isNil |-> TRUE, m |-> EmptyFn]
MakeMap == [isNil |-> FALSE, m |-> EmptyFn]
KeySet(mp) == DOMAIN mp.m
\* mp[k]: the zero value when k is missing, also on a nil map.
MapIndex(mp, k, zero) == IF k \in DOMAIN mp.m THEN mp.m[k] ELSE zero
\* delete(mp, k): a no-op when k is missing, also on a nil map.
MapDelete(mp, k) == [mp EXCEPT !.m = [j \in (DOMAIN mp.m) \ {k} |-> mp.m[j]]]
\* mp[k] = v on a non-nil map (on a nil map the statement panics: see the callers).
MapAssign(mp, k, v) ==
    [mp EXCEPT !.m = [j \in (DOMAIN mp.m) \cup {k} |-> IF j = k THEN v ELSE mp.m[j]]]

\* The outcome of a call: the receiver afterwards, and whether the call panicked.
Ok(a) == [a |-> a, panic |-> FALSE]
Panic(a) == [a |-> a, panic |-> TRUE]

(***************************************************************************)
(* EventCorrelator.                                                        *)
(***************************************************************************)
\* The zero value: all four maps nil.
ZeroValue ==
    [Activities |-> NilMap, ActivityAttempts |-> NilMap,
     Signals |-> NilMap, SignalAttempts |-> NilMap]
\* An instance constructed with four explicit empty maps.
EmptyMaps ==
    [Activities |-> MakeMap, ActivityAttempts |-> MakeMap,
     Signals |-> MakeMap, SignalAttempts |-> MakeMap]


\* Mutation of checkInit: no map is made.
checkInitMakesNothing(a) == a

\* Mutation of checkInit: the four maps are made anew on every call.
checkInitAlwaysMakes(a) ==
    [Activities |-> MakeMap, ActivityAttempts |-> MakeMap,
     Signals |-> MakeMap, SignalAttempts |-> MakeMap]

checkInit(a) ==
    [Activities |-> IF a.Activities.isNil THEN MakeMap ELSE a.Activities,
     ActivityAttempts |-> IF a.ActivityAttempts.isNil THEN MakeMap ELSE a.ActivityAttempts,
     Signals |-> IF a.Signals.isNil THEN MakeMap ELSE a.Signals,
     SignalAttempts |-> IF a.SignalAttempts.isNil THEN MakeMap ELSE a.SignalAttempts]

\* strconv.FormatInt(n, 10)
Digits == <<"0", "1", "2", "3", "4", "5", "6", "7", "8", "9">>
RECURSIVE FormatInt(_)
FormatInt(n) ==
    IF n < 0 THEN "-" \o FormatInt(0 - n)
    ELSE IF n < 10 THEN Digits[n + 1]
    ELSE FormatInt(n \div 10) \o Digits[(n % 10) + 1]

key(eventID) == FormatInt(eventID)


\* Mutation of getID: the event's own id instead of the id it references.
getIDOwnEventID(h) ==
    CASE h.EventType \in ActivityTerminalTypes \cup SignalTerminalTypes -> key(h.EventID)
      [] OTHER -> ""

getID(h) ==
    CASE h.EventType = EventTypeActivityTaskCompleted -> key(h.ScheduledEventID)
      [] h.EventType = EventTypeActivityTaskFailed -> key(h.ScheduledEventID)
      [] h.EventType = EventTypeActivityTaskTimedOut -> key(h.ScheduledEventID)
      [] h.EventType = EventTypeActivityTaskCanceled -> key(h.ScheduledEventID)
      [] h.EventType = EventTypeExternalWorkflowExecutionSignaled -> key(h.InitiatedEventID)
      [] h.EventType = EventTypeSignalExternalWorkflowExecutionFailed -> key(h.InitiatedEventID)
      [] OTHER -> ""

\* fmt.Sprintf("%s->%s", info.SignalName, info.WorkflowID); info must not be nil.
signalIDFromInfo(info) == info.SignalName \o "->" \o info.WorkflowID

safeActivityID(a, h) ==
    LET info == MapIndex(a.Activities, getID(h), Nil)
    IN  IF info # Nil THEN info.ActivityID ELSE ""

safeSignalID(a, h) ==
    LET info == MapIndex(a.Signals, getID(h), Nil)
    IN  IF info # Nil THEN signalIDFromInfo(info) ELSE ""


\* Mutation of incrementActivityAttempts: the id is not tested against "".
incrementActivityAttemptsUnguarded(a, h) ==
    LET id == safeActivityID(a, h)
    IN  IF a.ActivityAttempts.isNil THEN Panic(a)
        ELSE Ok([a EXCEPT !.ActivityAttempts = MapAssign(@, id, MapIndex(@, id, 0) + 1)])

incrementActivityAttempts(a, h) ==
    LET id == safeActivityID(a, h)
    IN  IF id # ""
        THEN IF a.ActivityAttempts.isNil THEN Panic(a)
             ELSE Ok([a EXCEPT !.ActivityAttempts =
                          MapAssign(@, id, MapIndex(@, id, 0) + 1)])
        ELSE Ok(a)


\* Mutation of incrementSignalAttempts: the count is set to 1, not incremented.
incrementSignalAttemptsSetsOne(a, h) ==
    LET id == safeSignalID(a, h)
    IN  IF id # ""
        THEN IF a.SignalAttempts.isNil THEN Panic(a)
             ELSE Ok([a EXCEPT !.SignalAttempts = MapAssign(@, id, 1)])
        ELSE Ok(a)

incrementSignalAttempts(a, h) ==
    LET id == safeSignalID(a, h)
    IN  IF id # ""
        THEN IF a.SignalAttempts.isNil THEN Panic(a)
             ELSE Ok([a EXCEPT !.SignalAttempts =
                          MapAssign(@, id, MapIndex(@, id, 0) + 1)])
        ELSE Ok(a)

\* The cases of RemoveCorrelation's switch, after checkInit.

\* Mutation of the ActivityTaskCompleted case: the attempt counter is
\* decremented, not deleted.
caseActivityTaskCompletedDecrements(a, h) ==
    LET id == safeActivityID(a, h)
    IN  Ok([a EXCEPT !.ActivityAttempts =
                         IF id # "" THEN MapAssign(@, id, MapIndex(@, id, 0) - 1) ELSE @,
                     !.Activities = MapDelete(@, key(h.ScheduledEventID))])

caseActivityTaskCompleted(a, h) ==
    Ok([a EXCEPT !.ActivityAttempts = MapDelete(@, safeActivityID(a, h)),
                 !.Activities = MapDelete(@, key(h.ScheduledEventID))])

caseActivityTaskFailed(a, h) ==
    LET r == incrementActivityAttempts(a, h)
    IN  IF r.panic THEN r
        ELSE Ok([r.a EXCEPT !.Activities = MapDelete(@, key(h.ScheduledEventID))])


\* Mutation of the ActivityTaskTimedOut case: the pending entry is not deleted.
caseActivityTaskTimedOutKeepsEntry(a, h) == incrementActivityAttempts(a, h)

caseActivityTaskTimedOut(a, h) ==
    LET r == incrementActivityAttempts(a, h)
    IN  IF r.panic THEN r
        ELSE Ok([r.a EXCEPT !.Activities = MapDelete(@, key(h.ScheduledEventID))])


\* Mutation of the ActivityTaskCanceled case: the attempt counter is not deleted.
caseActivityTaskCanceledKeepsAttempts(a, h) ==
    Ok([a EXCEPT !.Activities = MapDelete(@, key(h.ScheduledEventID))])

caseActivityTaskCanceled(a, h) ==
    Ok([a EXCEPT !.ActivityAttempts = MapDelete(@, safeActivityID(a, h)),
                 !.Activities = MapDelete(@, key(h.ScheduledEventID))])

caseExternalWorkflowExecutionSignaled(a, h) ==
    LET info == MapIndex(a.Signals, key(h.InitiatedEventID), Nil)
    IN  \* signalIDFromInfo(info) reads info.SignalName: a nil info panics
        IF info = Nil THEN Panic(a)
        ELSE Ok([a EXCEPT !.SignalAttempts = MapDelete(@, signalIDFromInfo(info)),
                          !.Signals = MapDelete(@, key(h.InitiatedEventID))])


\* Mutation of the SignalExternalWorkflowExecutionFailed case: the delete is the
\* activity cases' delete, on Activities.
caseSignalExternalWorkflowExecutionFailedDeletesActivity(a, h) ==
    LET r == incrementSignalAttempts(a, h)
    IN  IF r.panic THEN r
        ELSE Ok([r.a EXCEPT !.Activities = MapDelete(@, key(h.InitiatedEventID))])

caseSignalExternalWorkflowExecutionFailed(a, h) ==
    LET r == incrementSignalAttempts(a, h)
    IN  IF r.panic THEN r
        ELSE Ok([r.a EXCEPT !.Signals = MapDelete(@, key(h.InitiatedEventID))])

RemoveCorrelation(a0, h) ==
    LET a == checkInit(a0)
    IN  CASE h.EventType = EventTypeActivityTaskCompleted -> caseActivityTaskCompleted(a, h)
          [] h.EventType = EventTypeActivityTaskFailed -> caseActivityTaskFailed(a, h)
          [] h.EventType = EventTypeActivityTaskTimedOut -> caseActivityTaskTimedOut(a, h)
          [] h.EventType = EventTypeActivityTaskCanceled -> caseActivityTaskCanceled(a, h)
          [] h.EventType = EventTypeExternalWorkflowExecutionSignaled ->
               caseExternalWorkflowExecutionSignaled(a, h)
          [] h.EventType = EventTypeSignalExternalWorkflowExecutionFailed ->
               caseSignalExternalWorkflowExecutionFailed(a, h)
          [] OTHER -> Ok(a)


\* Mutation of Correlate: scheduling an activity resets its attempt counter.
CorrelateResetsAttempts(a0, h) ==
    LET a == checkInit(a0)
    IN  IF h.EventType = EventTypeActivityTaskScheduled
        THEN Ok([a EXCEPT !.ActivityAttempts = MapDelete(@, h.ActivityID),
                          !.Activities =
                              MapAssign(@, key(h.EventID),
                                        ActivityInfoValue(h.ActivityID, h.ActivityType))])
        ELSE IF h.EventType = EventTypeSignalExternalWorkflowExecutionInitiated
             THEN Ok([a EXCEPT !.Signals =
                          MapAssign(@, key(h.EventID),
                                    SignalInfoValue(h.SignalName, h.WorkflowID))])
             ELSE Ok(a)

Correlate(a0, h) ==
    LET a == checkInit(a0)
        r1 == IF h.EventType = EventTypeActivityTaskScheduled
              THEN IF a.Activities.isNil THEN Panic(a)
                   ELSE Ok([a EXCEPT !.Activities =
                                MapAssign(@, key(h.EventID),
                                          ActivityInfoValue(h.ActivityID, h.ActivityType))])
              ELSE Ok(a)
    IN  IF r1.panic THEN r1
        ELSE IF h.EventType = EventTypeSignalExternalWorkflowExecutionInitiated
             THEN IF r1.a.Signals.isNil THEN Panic(r1.a)
                  ELSE Ok([r1.a EXCEPT !.Signals =
                               MapAssign(@, key(h.EventID),
                                         SignalInfoValue(h.SignalName, h.WorkflowID))])
             ELSE r1

Track(a, h) ==
    LET r == RemoveCorrelation(a, h)
    IN  IF r.panic THEN r ELSE Correlate(r.a, h)


\* Mutation of ActivityInfo: the entry looked up is taken out of the map.
ActivityInfoTakesEntry(a0, h) ==
    LET a == checkInit(a0)
    IN  [a |-> [a EXCEPT !.Activities = MapDelete(@, getID(h))],
         ret |-> MapIndex(a.Activities, getID(h), Nil)]

\* The read operations: the receiver afterwards and the value returned.
ActivityInfo(a0, h) ==
    LET a == checkInit(a0)
    IN  [a |-> a, ret |-> MapIndex(a.Activities, getID(h), Nil)]

SignalInfo(a0, h) ==
    LET a == checkInit(a0)
    IN  [a |-> a, ret |-> MapIndex(a.Signals, getID(h), Nil)]

AttemptsForActivity(a0, info) ==
    LET a == checkInit(a0)
    IN  [a |-> a, ret |-> MapIndex(a.ActivityAttempts, info.ActivityID, 0)]

AttemptsForSignal(a0, info) ==
    LET a == checkInit(a0)
    IN  [a |-> a, ret |-> MapIndex(a.SignalAttempts, signalIDFromInfo(info), 0)]

(***************************************************************************)
(* The state machine: one correlator that starts as the zero value, and a  *)
(* second one that starts with four explicit empty maps and receives the   *)
(* same calls.                                                             *)
(***************************************************************************)
VARIABLES
    cor,          \* the correlator, zero value at the start
    panicked,     \* a call on cor panicked: the run is over
    twin,         \* the correlator constructed with explicit empty maps
    twinPanicked, \* a call on twin panicked
    nextId,       \* event id of the next history event
    prev,         \* cor before the last Track call
    op,           \* the last Track call: the event kind, and whether the event
                  \* referenced a pending entry of its family
    pendAct,      \* history: id -> info of the activity-scheduled events tracked
                  \* and not referenced by a terminal activity event since
    doneAct,      \* history: ids of activity-scheduled events resolved since
    pendSig,      \* history: id -> info of the signal-initiated events tracked
                  \* and not referenced by a signaled / delivery-failed event since
    doneSig,      \* history: ids of signal-initiated events resolved since
    failsAct,     \* history: per activity id, the failed / timed-out events that
                  \* resolved a pending entry recording it since the last
                  \* completed / canceled event that did
    heap,         \* the maps made so far: address -> entries (a Go map is a
                  \* reference to a map made by make)
    inst,         \* the correlators of several executions: per instance and
                  \* index, the address of its map, 0 for a nil map
    instNextId,   \* per instance, the event id of its next history event
    instPanicked, \* per instance, whether a call on it panicked
    solo          \* per instance, the correlator that tracks the instance's
                  \* history alone

vars == <<cor, panicked, twin, twinPanicked, nextId, prev, op,
          pendAct, doneAct, pendSig, doneSig, failsAct,
          heap, inst, instNextId, instPanicked, solo>>

\* The single correlator of Spec, and the correlators of several executions
\* side by side of IsolationSpec.
singleVars == <<cor, panicked, twin, twinPanicked, nextId, prev, op,
                pendAct, doneAct, pendSig, doneSig, failsAct>>
instanceVars == <<heap, inst, instNextId, instPanicked, solo>>

\* Number of history events each of the side-by-side instances tracks.
MaxIsolated == 2
\* The instances: one correlator per execution.
Instances == {1, 2}
\* The fields of the zero value: four nil maps.
NilRefs == [Activities |-> 0, ActivityAttempts |-> 0, Signals |-> 0, SignalAttempts |-> 0]

FnRemove(f, k) == [j \in (DOMAIN f) \ {k} |-> f[j]]
FnPut(f, k, v) == [j \in (DOMAIN f) \cup {k} |-> IF j = k THEN v ELSE f[j]]

\* Whether the event references, in correlator a, a pending entry of its family.
Hit(a, h) ==
    \/ h.EventType \in ActivityTerminalTypes /\ getID(h) \in KeySet(a.Activities)
    \/ h.EventType \in SignalTerminalTypes /\ getID(h) \in KeySet(a.Signals)

NoOp == [name |-> "Init", type |-> "", hit |-> FALSE]

Init ==
    /\ cor = ZeroValue
    /\ panicked = FALSE
    /\ twin = EmptyMaps
    /\ twinPanicked = FALSE
    /\ nextId = 1
    /\ prev = ZeroValue
    /\ op = NoOp
    /\ pendAct = EmptyFn
    /\ doneAct = {}
    /\ pendSig = EmptyFn
    /\ doneSig = {}
    /\ failsAct = [aid \in ActivityIDs |-> 0]
    /\ heap = <<>>
    /\ inst = [i \in Instances |-> NilRefs]
    /\ instNextId = [i \in Instances |-> 1]
    /\ instPanicked = [i \in Instances |-> FALSE]
    /\ solo = [i \in Instances |-> ZeroValue]

\* The history bookkeeping of one tracked event, written from the meaning of the
\* event kinds and not from the code.
HistoryStep(h) ==
    /\ pendAct' =
         IF h.EventType = EventTypeActivityTaskScheduled
         THEN FnPut(pendAct, h.EventID, ActivityInfoValue(h.ActivityID, h.ActivityType))
         ELSE IF h.EventType \in ActivityTerminalTypes
              THEN FnRemove(pendAct, h.ScheduledEventID)
              ELSE pendAct
    /\ doneAct' =
         IF h.EventType \in ActivityTerminalTypes /\ h.ScheduledEventID \in DOMAIN pendAct
         THEN doneAct \cup {h.ScheduledEventID}
         ELSE doneAct
    /\ pendSig' =
         IF h.EventType = EventTypeSignalExternalWorkflowExecutionInitiated
         THEN FnPut(pendSig, h.EventID, SignalInfoValue(h.SignalName, h.WorkflowID))
         ELSE IF h.EventType \in SignalTerminalTypes
              THEN FnRemove(pendSig, h.InitiatedEventID)
              ELSE pendSig
    /\ doneSig' =
         IF h.EventType \in SignalTerminalTypes /\ h.InitiatedEventID \in DOMAIN pendSig
         THEN doneSig \cup {h.InitiatedEventID}
         ELSE doneSig
    /\ failsAct' =
         IF h.EventType \in ActivityTerminalTypes /\ h.ScheduledEventID \in DOMAIN pendAct
         THEN LET aid == pendAct[h.ScheduledEventID].ActivityID
              IN  IF h.EventType \in {EventTypeActivityTaskFailed, EventTypeActivityTaskTimedOut}
                  THEN [failsAct EXCEPT ![aid] = @ + 1]
                  ELSE [failsAct EXCEPT ![aid] = 0]
         ELSE failsAct

\* One history event is tracked, once, in history order.
TrackEvent ==
    /\ ~panicked
    /\ nextId <= MaxEvents
    /\ \E h \in EventsAt(nextId) :
         LET r == Track(cor, h)
             t == Track(twin, h)
         IN  /\ cor' = r.a
             /\ panicked' = r.panic
             /\ twin' = t.a
             /\ twinPanicked' = t.panic
             /\ prev' = cor
             /\ op' = [name |-> "Track", type |-> h.EventType, hit |-> Hit(cor, h)]
             /\ HistoryStep(h)
    /\ nextId' = nextId + 1
    /\ UNCHANGED instanceVars

\* The read operations.  The decider queries the correlator about the event it
\* is about to track, so a query is made while events are left to track.  prev
\* and op keep describing the last Track call: after a Track call the four maps
\* exist and a read changes nothing.
ReadFrame ==
    UNCHANGED <<panicked, twinPanicked, nextId, prev, op,
                pendAct, doneAct, pendSig, doneSig, failsAct, instanceVars>>

CallActivityInfo ==
    /\ ~panicked
    /\ nextId <= MaxEvents
    /\ \E h \in EventsAt(nextId) :
         /\ h.EventType \in ActivityTerminalTypes
         /\ cor' = ActivityInfo(cor, h).a
         /\ twin' = ActivityInfo(twin, h).a
    /\ ReadFrame

CallSignalInfo ==
    /\ ~panicked
    /\ nextId <= MaxEvents
    /\ \E h \in EventsAt(nextId) :
         /\ h.EventType \in SignalTerminalTypes
         /\ cor' = SignalInfo(cor, h).a
         /\ twin' = SignalInfo(twin, h).a
    /\ ReadFrame

CallAttemptsForActivity ==
    /\ ~panicked
    /\ nextId <= MaxEvents
    /\ \E aid \in ActivityIDs, at \in ActivityTypes :
         /\ cor' = AttemptsForActivity(cor, ActivityInfoValue(aid, at)).a
         /\ twin' = AttemptsForActivity(twin, ActivityInfoValue(aid, at)).a
    /\ ReadFrame

CallAttemptsForSignal ==
    /\ ~panicked
    /\ nextId <= MaxEvents
    /\ \E n \in SignalNames, w \in WorkflowIDs :
         /\ cor' = AttemptsForSignal(cor, SignalInfoValue(n, w)).a
         /\ twin' = AttemptsForSignal(twin, SignalInfoValue(n, w)).a
    /\ ReadFrame

Next ==
    \/ TrackEvent
    \/ CallActivityInfo
    \/ CallSignalInfo
    \/ CallAttemptsForActivity
    \/ CallAttemptsForSignal

Spec == Init /\ [][Next]_vars

(***************************************************************************)
(* Queries used by the properties below.                                   *)
(***************************************************************************)
\* Ids a terminal event can reference.
RefIds == 0..MaxEvents
ActivityInfos == {ActivityInfoValue(aid, at) : aid \in ActivityIDs, at \in ActivityTypes}
SignalInfos == {SignalInfoValue(n, w) : n \in SignalNames, w \in WorkflowIDs}
ActivityQueries(e) == {ActivityTerminalEvent(t, nextId, e) : t \in ActivityTerminalTypes}
SignalQueries(e) == {SignalTerminalEvent(t, nextId, e) : t \in SignalTerminalTypes}

(***************************************************************************)
(* C1.  An activity-scheduled event e carrying (activityId, activityType)  *)
(* has been tracked.  Until a terminal activity event referencing e is     *)
(* tracked, ActivityInfo of a completed / failed / timed-out / canceled    *)
(* event whose ScheduledEventID is e returns exactly (activityId,          *)
(* activityType); once one has been tracked, ActivityInfo of every such    *)
(* event returns nil.  The same for SignalInfo, signal-initiated events    *)
(* and the signaled / delivery-failed events referencing them.             *)
(***************************************************************************)
C1_Correlation ==
    /\ \A e \in DOMAIN pendAct : \A q \in ActivityQueries(e) :
         ActivityInfo(cor, q).ret = pendAct[e]
    /\ \A e \in doneAct : \A q \in ActivityQueries(e) :
         ActivityInfo(cor, q).ret = Nil
    /\ \A e \in DOMAIN pendSig : \A q \in SignalQueries(e) :
         SignalInfo(cor, q).ret = pendSig[e]
    /\ \A e \in doneSig : \A q \in SignalQueries(e) :
         SignalInfo(cor, q).ret = Nil

\* An activity is pending and resolves to its info, another has been resolved
\* and resolves to nil, and a signal is pending.
C1_Witness ==
    /\ \E e \in DOMAIN pendAct : \E q \in ActivityQueries(e) :
         ActivityInfo(cor, q).ret = pendAct[e] /\ pendAct[e] \in ActivityInfos
    /\ \E e \in doneAct : \E q \in ActivityQueries(e) : ActivityInfo(cor, q).ret = Nil
    /\ \E e \in DOMAIN pendSig : \E q \in SignalQueries(e) :
         SignalInfo(cor, q).ret = pendSig[e] /\ pendSig[e] \in SignalInfos

(***************************************************************************)
(* C2.  After any history tracked once per event in history order, the     *)
(* keys of Activities are exactly the (decimal) ids of the tracked         *)
(* activity-scheduled events that no terminal activity event has           *)
(* referenced since, and the keys of Signals exactly the ids of the        *)
(* tracked signal-initiated events that no signaled / delivery-failed      *)
(* event has referenced since; both are empty when everything scheduled    *)
(* or initiated has been resolved.                                         *)
(***************************************************************************)
C2_PendingKeys ==
    /\ KeySet(cor.Activities) = {FormatInt(e) : e \in DOMAIN pendAct}
    /\ KeySet(cor.Signals) = {FormatInt(e) : e \in DOMAIN pendSig}

\* An activity and a signal were tracked and then resolved: nothing is pending.
C2_Witness ==
    /\ doneAct # {} /\ DOMAIN pendAct = {} /\ KeySet(cor.Activities) = {}
    /\ doneSig # {} /\ DOMAIN pendSig = {} /\ KeySet(cor.Signals) = {}

(***************************************************************************)
(* C3.  For every business activity id A, AttemptsForActivity(A) is the    *)
(* number of activity-failed and activity-timed-out events that resolved   *)
(* a pending entry recording A since the most recent activity-completed    *)
(* or activity-canceled event that resolved a pending entry recording A.   *)
(***************************************************************************)
C3_AttemptsCount ==
    \A info \in ActivityInfos :
        AttemptsForActivity(cor, info).ret = failsAct[info.ActivityID]

\* C3 for the activity ids other than "": the count holds for each of them.
C3_NonEmptyIds ==
    \A info \in ActivityInfos :
        info.ActivityID # "" => AttemptsForActivity(cor, info).ret = failsAct[info.ActivityID]

(***************************************************************************)
(* C4.  Tracking an activity-completed or activity-canceled event whose    *)
(* ScheduledEventID has a pending entry recording activity id A deletes    *)
(* the ActivityAttempts entry of A, so that AttemptsForActivity(A) is 0    *)
(* right after, whatever it was before, and the pending entry is removed.  *)
(***************************************************************************)
C4_SuccessClears ==
    \A ref \in 0..(nextId - 1) :
        LET k == FormatInt(ref)
        IN  k \in KeySet(cor.Activities)
            => \A t \in {EventTypeActivityTaskCompleted, EventTypeActivityTaskCanceled} :
                 LET A == cor.Activities.m[k].ActivityID
                     r == Track(cor, ActivityTerminalEvent(t, nextId, ref))
                 IN  /\ ~r.panic
                     /\ A \notin KeySet(r.a.ActivityAttempts)
                     /\ \A at \in ActivityTypes :
                          AttemptsForActivity(r.a, ActivityInfoValue(A, at)).ret = 0
                     /\ k \notin KeySet(r.a.Activities)

\* A completed / canceled event has just resolved a pending entry whose
\* activity id had failed before: its count went from above 0 to 0.
C4_Witness ==
    /\ op.name = "Track"
    /\ op.type \in {EventTypeActivityTaskCompleted, EventTypeActivityTaskCanceled}
    /\ op.hit
    /\ \E k \in KeySet(prev.Activities) \ KeySet(cor.Activities) :
         /\ AttemptsForActivity(prev, prev.Activities.m[k]).ret > 0
         /\ AttemptsForActivity(cor, prev.Activities.m[k]).ret = 0

(***************************************************************************)
(* C5.  Tracking a signaled event whose InitiatedEventID has a pending     *)
(* entry (N, W) removes the entry and leaves AttemptsForSignal({N, W}) at  *)
(* 0; tracking a delivery-failed event whose InitiatedEventID has a        *)
(* pending entry (N, W) removes the entry and raises                       *)
(* AttemptsForSignal({N, W}) by exactly 1; tracking a signal-initiated     *)
(* event changes no signal attempt count, so the count carries over to     *)
(* later initiations of the same (N, W).                                   *)
(***************************************************************************)
C5_SignalAttempts ==
    /\ \A ref \in 0..(nextId - 1) :
         LET k == FormatInt(ref)
         IN  k \in KeySet(cor.Signals)
             => LET info == cor.Signals.m[k]
                    s == Track(cor, SignalTerminalEvent(
                             EventTypeExternalWorkflowExecutionSignaled, nextId, ref))
                    f == Track(cor, SignalTerminalEvent(
                             EventTypeSignalExternalWorkflowExecutionFailed, nextId, ref))
                IN  /\ ~s.panic
                    /\ k \notin KeySet(s.a.Signals)
                    /\ AttemptsForSignal(s.a, info).ret = 0
                    /\ ~f.panic
                    /\ k \notin KeySet(f.a.Signals)
                    /\ AttemptsForSignal(f.a, info).ret = AttemptsForSignal(cor, info).ret + 1
    /\ \A n \in SignalNames, w \in WorkflowIDs :
         LET r == Track(cor, InitiatedEvent(nextId, n, w))
         IN  \A info \in SignalInfos :
               AttemptsForSignal(r.a, info).ret = AttemptsForSignal(cor, info).ret

\* A delivery-failed event has just resolved a pending entry whose identity had
\* already failed under an earlier event id: its count went up by 1 from above 0.
C5_Witness ==
    /\ op.name = "Track"
    /\ op.type = EventTypeSignalExternalWorkflowExecutionFailed
    /\ op.hit
    /\ \E k \in KeySet(prev.Signals) \ KeySet(cor.Signals) :
         /\ AttemptsForSignal(prev, prev.Signals.m[k]).ret > 0
         /\ AttemptsForSignal(cor, prev.Signals.m[k]).ret
              = AttemptsForSignal(prev, prev.Signals.m[k]).ret + 1

(***************************************************************************)
(* Comparing a correlator before and after a call.                         *)
(***************************************************************************)
IndexNames == {"Activities", "ActivityAttempts", "Signals", "SignalAttempts"}
\* The entries of the four indices, nil or not.
Content(a) == [f \in IndexNames |-> a[f].m]
\* a with every nil index replaced by an empty map, the entries kept.
Materialized(a) == [f \in IndexNames |-> [isNil |-> FALSE, m |-> a[f].m]]
NoNilIndex(a) == \A f \in IndexNames : ~a[f].isNil

SuccessTypes ==
    {EventTypeActivityTaskCompleted, EventTypeActivityTaskCanceled,
     EventTypeExternalWorkflowExecutionSignaled}
FailureTypes ==
    {EventTypeActivityTaskFailed, EventTypeActivityTaskTimedOut,
     EventTypeSignalExternalWorkflowExecutionFailed}

(***************************************************************************)
(* C6.  Tracking an activity-completed, activity-canceled or signaled      *)
(* event that references an event id with no pending entry raises no       *)
(* fault (and leaves the four indices unchanged).  Stated here is the      *)
(* absence of a fault, which already fails.                                *)
(***************************************************************************)
C6_NoFault ==
    (op.name = "Track" /\ op.type \in SuccessTypes /\ ~op.hit) => ~panicked

(***************************************************************************)
(* C7.  Tracking an activity-failed, activity-timed-out or                 *)
(* delivery-failed event that references an event id with no pending       *)
(* entry raises no fault and leaves the state identical to the state       *)
(* before the call.                                                        *)
(***************************************************************************)
C7_Original ==
    (op.name = "Track" /\ op.type \in FailureTypes /\ ~op.hit)
    => (~panicked /\ cor = prev)

(***************************************************************************)
(* C7, amended.  Such a call raises no fault and leaves the entries of     *)
(* the two attempt-counter indices and of the two pending indices          *)
(* unchanged; its only effect is that an index that was nil (never         *)
(* initialized) is an empty map afterwards, so that on an instance whose   *)
(* four maps exist the state after the call is identical to the state      *)
(* before it.                                                              *)
(***************************************************************************)
C7_Amended ==
    (op.name = "Track" /\ op.type \in FailureTypes /\ ~op.hit)
    => /\ ~panicked
       /\ Content(cor) = Content(prev)
       /\ cor = Materialized(prev)
       /\ NoNilIndex(prev) => cor = prev

\* A failure event that referenced no pending entry has just been tracked on a
\* correlator holding a pending activity and an attempt count.
C7_Witness ==
    /\ op.name = "Track" /\ op.type \in FailureTypes /\ ~op.hit
    /\ KeySet(prev.Activities) # {}
    /\ KeySet(prev.ActivityAttempts) # {}
    /\ cor = prev

(***************************************************************************)
(* C8.  Tracking an event whose kind is outside the recognized set leaves  *)
(* all four indices unchanged in every reachable state (so tracking it     *)
(* any number of times is the same as not tracking it).                    *)
(***************************************************************************)
C8_Original ==
    (op.name = "Track" /\ op.type \in OtherTypes) => (~panicked /\ cor = prev)

(***************************************************************************)
(* C8, amended.  Tracking an event of an unrecognized kind leaves the      *)
(* entries of all four indices unchanged; its only effect is that an       *)
(* index that was nil (never initialized) is an empty map afterwards.      *)
(* Tracking it any number of times leaves the same entries as not          *)
(* tracking it, and the same state as tracking it once.                    *)
(***************************************************************************)
C8_Amended ==
    (op.name = "Track" /\ op.type \in OtherTypes)
    => /\ ~panicked
       /\ Content(cor) = Content(prev)
       /\ cor = Materialized(prev)
       /\ NoNilIndex(prev) => cor = prev
       /\ \A t \in OtherTypes : Track(cor, OtherEvent(t, nextId)) = Ok(cor)

\* An event of an unrecognized kind has just been tracked on a correlator
\* holding a pending entry and an attempt count.
C8_Witness ==
    /\ op.name = "Track" /\ op.type \in OtherTypes
    /\ KeySet(prev.Activities) \cup KeySet(prev.Signals) # {}
    /\ KeySet(prev.ActivityAttempts) \cup KeySet(prev.SignalAttempts) # {}
    /\ cor = prev

ReadStep ==
    \/ CallActivityInfo
    \/ CallSignalInfo
    \/ CallAttemptsForActivity
    \/ CallAttemptsForSignal

C10_Original == [][(nextId' = nextId /\ ReadStep) => cor' = cor]_vars

(***************************************************************************)
(* C10, amended.  A read operation leaves the entries of all four indices  *)
(* as they were; its only effect is that an index that was nil (never      *)
(* initialized) is an empty map afterwards, so that in every state whose   *)
(* four maps exist a read leaves the state exactly as it was.              *)
(***************************************************************************)
C10_Amended ==
    [][(nextId' = nextId /\ ReadStep)
       => /\ Content(cor') = Content(cor)
          /\ cor' = Materialized(cor)
          /\ NoNilIndex(cor) => cor' = cor]_vars

\* A read has been made on the never-initialized correlator: no event has been
\* tracked and the four maps exist, empty.
C10_Witness ==
    /\ op.name = "Init"
    /\ nextId = 1
    /\ cor = EmptyMaps

(***************************************************************************)
(* C11.  Two fresh instances that track the same event sequence end in     *)
(* identical states and answer every query identically.  Track and the     *)
(* reads are operators here, so two evaluations on the same arguments      *)
(* agree whatever the operators are: no formula is given.  The agreement   *)
(* of a zero-value instance with one whose maps were made is C9, the       *)
(* independence of instances is C14.                                       *)
(***************************************************************************)

(***************************************************************************)
(* C12.  For an activity-failed, activity-timed-out or delivery-failed     *)
(* event the attempt counter is incremented if and only if a pending       *)
(* entry exists under the referenced event id: when one exists, whatever   *)
(* identity it records, the counter of that identity goes up by exactly 1  *)
(* and no other counter changes; when none exists no counter changes.  In  *)
(* both cases no fault is raised and the pending entry under the           *)
(* referenced id is absent afterwards.                                     *)
(***************************************************************************)
C12_IncrementIffPending ==
    \A ref \in 0..(nextId - 1) :
        LET k == FormatInt(ref)
        IN  /\ \A t \in {EventTypeActivityTaskFailed, EventTypeActivityTaskTimedOut} :
                 LET r == Track(cor, ActivityTerminalEvent(t, nextId, ref))
                 IN  /\ ~r.panic
                     /\ k \notin KeySet(r.a.Activities)
                     /\ r.a.SignalAttempts.m = cor.SignalAttempts.m
                     /\ r.a.ActivityAttempts.m =
                          IF k \in KeySet(cor.Activities)
                          THEN LET A == cor.Activities.m[k].ActivityID
                               IN  FnPut(cor.ActivityAttempts.m, A,
                                         MapIndex(cor.ActivityAttempts, A, 0) + 1)
                          ELSE cor.ActivityAttempts.m
            /\ LET r == Track(cor, SignalTerminalEvent(
                            EventTypeSignalExternalWorkflowExecutionFailed, nextId, ref))
               IN  /\ ~r.panic
                   /\ k \notin KeySet(r.a.Signals)
                   /\ r.a.ActivityAttempts.m = cor.ActivityAttempts.m
                   /\ r.a.SignalAttempts.m =
                        IF k \in KeySet(cor.Signals)
                        THEN LET id == signalIDFromInfo(cor.Signals.m[k])
                             IN  FnPut(cor.SignalAttempts.m, id,
                                       MapIndex(cor.SignalAttempts, id, 0) + 1)
                        ELSE cor.SignalAttempts.m

\* C12 for the pending entries whose recorded activity id is not "", and for
\* every pending signal entry: the increment happens exactly when an entry exists.
C12_NonEmptyIds ==
    \A ref \in 0..(nextId - 1) :
        LET k == FormatInt(ref)
        IN  /\ \A t \in {EventTypeActivityTaskFailed, EventTypeActivityTaskTimedOut} :
                 LET r == Track(cor, ActivityTerminalEvent(t, nextId, ref))
                 IN  (k \in KeySet(cor.Activities) => cor.Activities.m[k].ActivityID # "")
                     => /\ ~r.panic
                        /\ k \notin KeySet(r.a.Activities)
                        /\ r.a.SignalAttempts.m = cor.SignalAttempts.m
                        /\ r.a.ActivityAttempts.m =
                             IF k \in KeySet(cor.Activities)
                             THEN LET A == cor.Activities.m[k].ActivityID
                                  IN  FnPut(cor.ActivityAttempts.m, A,
                                            MapIndex(cor.ActivityAttempts, A, 0) + 1)
                             ELSE cor.ActivityAttempts.m
            /\ LET r == Track(cor, SignalTerminalEvent(
                            EventTypeSignalExternalWorkflowExecutionFailed, nextId, ref))
               IN  /\ ~r.panic
                   /\ k \notin KeySet(r.a.Signals)
                   /\ r.a.ActivityAttempts.m = cor.ActivityAttempts.m
                   /\ r.a.SignalAttempts.m =
                        IF k \in KeySet(cor.Signals)
                        THEN LET id == signalIDFromInfo(cor.Signals.m[k])
                             IN  FnPut(cor.SignalAttempts.m, id,
                                       MapIndex(cor.SignalAttempts, id, 0) + 1)
                        ELSE cor.SignalAttempts.m

(***************************************************************************)
(* The two phases of one Track call, seen separately.                      *)
(***************************************************************************)
EstablishingTypes ==
    {EventTypeActivityTaskScheduled, EventTypeSignalExternalWorkflowExecutionInitiated}
ResolvingTypes == ActivityTerminalTypes \cup SignalTerminalTypes
\* The receiver after the resolving phase, and after the establishing phase
\* that follows it (not run when the resolving phase panicked).
AfterResolve(a, h) == RemoveCorrelation(a, h).a
AfterEstablish(a, h) == Track(a, h).a
\* Every pending entry of a is a pending entry of b, with the same value.
PendingKept(a, b) ==
    /\ \A k \in KeySet(a.Activities) :
         k \in KeySet(b.Activities) /\ b.Activities.m[k] = a.Activities.m[k]
    /\ \A k \in KeySet(a.Signals) :
         k \in KeySet(b.Signals) /\ b.Signals.m[k] = a.Signals.m[k]
\* What the claim says of the kinds, the same in both statements below: a is
\* the receiver before the call of Track on h, end the receiver after it.
KindsKeepToTheirPhase(a, end, h) ==
    /\ h.EventType \in EstablishingTypes
       => /\ PendingKept(a, end)
          /\ end.ActivityAttempts.m = a.ActivityAttempts.m
          /\ end.SignalAttempts.m = a.SignalAttempts.m
    /\ h.EventType \in ResolvingTypes
       => /\ KeySet(end.Activities) \subseteq KeySet(a.Activities)
          /\ KeySet(end.Signals) \subseteq KeySet(a.Signals)

(***************************************************************************)
(* C13.  Within one Track call, which runs the resolving phase             *)
(* (RemoveCorrelation) and then the establishing phase (Correlate), at     *)
(* most one of the two phases changes any index, for every event kind;     *)
(* establishing kinds never remove a pending entry or change an attempt    *)
(* counter, and resolving kinds never create a pending entry.              *)
(***************************************************************************)
C13_Original ==
    \A h \in EventsAt(nextId) :
        LET mid == AfterResolve(cor, h)
            end == AfterEstablish(cor, h)
        IN  /\ ~(mid # cor /\ end # mid)
            /\ KindsKeepToTheirPhase(cor, end, h)

(***************************************************************************)
(* C13, amended.  Within one Track call at most one of the two phases      *)
(* changes the entries of any index, for every event kind; besides its     *)
(* effect on the entries, the resolving phase, which runs first, turns     *)
(* every index that was nil (never initialized) into an empty map, so      *)
(* that on an instance whose four maps exist at most one phase changes     *)
(* any index.  Establishing kinds never remove a pending entry or change   *)
(* an attempt counter, and resolving kinds never create a pending entry.   *)
(* Stated of every event that can be tracked next, in every state in which *)
(* one can.                                                                *)
(***************************************************************************)
C13_Amended ==
    \A h \in (IF nextId <= MaxEvents THEN EventsAt(nextId) ELSE {}) :
        LET mid == AfterResolve(cor, h)
            end == AfterEstablish(cor, h)
        IN  /\ ~(mid.Activities.m # cor.Activities.m /\ end # mid)
            /\ ~(mid.ActivityAttempts.m # cor.ActivityAttempts.m /\ end # mid)
            /\ ~(mid.Signals.m # cor.Signals.m /\ end # mid)
            /\ ~(mid.SignalAttempts.m # cor.SignalAttempts.m /\ end # mid)
            /\ NoNilIndex(mid)
            /\ NoNilIndex(cor) => ~(mid # cor /\ end # mid)
            /\ KindsKeepToTheirPhase(cor, end, h)

\* An establishing event has just been tracked on a correlator that held a
\* pending entry and an attempt count: both are kept, one pending entry is new.
C13_Witness ==
    /\ op.name = "Track" /\ op.type \in EstablishingTypes
    /\ ~panicked
    /\ KeySet(prev.Activities) \cup KeySet(prev.Signals) # {}
    /\ KeySet(prev.ActivityAttempts) \cup KeySet(prev.SignalAttempts) # {}
    /\ PendingKept(prev, cor)
    /\ cor.ActivityAttempts = prev.ActivityAttempts
    /\ cor.SignalAttempts = prev.SignalAttempts
    /\ Content(cor) # Content(prev)

(***************************************************************************)
(* Several correlators side by side, one per execution.  The four fields   *)
(* of an EventCorrelator are Go maps, that is references: two instances    *)
(* share an index exactly when their fields hold the same map.  S is the   *)
(* store [heap, inst]: the maps made so far, and per instance the address  *)
(* each field holds (0 for nil).                                           *)
(***************************************************************************)
\* `if a.f == nil { a.f = make(...) }` on instance i: make returns a map no
\* other reference points to.
makeIfNil(S, i, f) ==
    IF S.inst[i][f] = 0
    THEN [heap |-> Append(S.heap, EmptyFn),
          inst |-> [S.inst EXCEPT ![i][f] = Len(S.heap) + 1]]
    ELSE S

\* Mutation of makeIfNil on a store: a nil field is set to a map the package
\* keeps per index, made by whichever instance needs it first.
makeIfNilPackageLevel(S, i, f) ==
    IF S.inst[i][f] = 0
    THEN IF \E j \in Instances : S.inst[j][f] # 0
         THEN [heap |-> S.heap,
               inst |-> [S.inst EXCEPT ![i][f] =
                            S.inst[CHOOSE j \in Instances : S.inst[j][f] # 0][f]]]
         ELSE [heap |-> Append(S.heap, EmptyFn),
               inst |-> [S.inst EXCEPT ![i][f] = Len(S.heap) + 1]]
    ELSE S

\* Mutation of checkInitOn: the maps are package-level, shared by the instances.
checkInitOnPackageLevel(S, i) ==
    makeIfNilPackageLevel(
        makeIfNilPackageLevel(
            makeIfNilPackageLevel(
                makeIfNilPackageLevel(S, i, "Activities"),
                i, "ActivityAttempts"),
            i, "Signals"),
        i, "SignalAttempts")

\* checkInit with receiver i.
checkInitOn(S, i) ==
    makeIfNil(
        makeIfNil(
            makeIfNil(
                makeIfNil(S, i, "Activities"),
                i, "ActivityAttempts"),
            i, "Signals"),
        i, "SignalAttempts")

\* The map a field of instance i holds.
Deref(S, i, f) ==
    IF S.inst[i][f] = 0 THEN NilMap ELSE [isNil |-> FALSE, m |-> S.heap[S.inst[i][f]]]

\* Instance i as a value: its four indices.
View(S, i) ==
    [Activities |-> Deref(S, i, "Activities"),
     ActivityAttempts |-> Deref(S, i, "ActivityAttempts"),
     Signals |-> Deref(S, i, "Signals"),
     SignalAttempts |-> Deref(S, i, "SignalAttempts")]

\* The writes of a call with receiver i, whose four maps exist: the entries of
\* v go to the maps the fields of i hold.
StoreView(S, i, v) ==
    [heap |-> [a \in DOMAIN S.heap |->
                  IF a = S.inst[i].Activities THEN v.Activities.m
                  ELSE IF a = S.inst[i].ActivityAttempts THEN v.ActivityAttempts.m
                  ELSE IF a = S.inst[i].Signals THEN v.Signals.m
                  ELSE IF a = S.inst[i].SignalAttempts THEN v.SignalAttempts.m
                  ELSE S.heap[a]],
     inst |-> S.inst]

\* Track with receiver i: checkInit makes the receiver's missing maps, the
\* rest of the call reads and writes the maps the receiver's fields hold.
TrackOn(S, i, h) ==
    LET S1 == checkInitOn(S, i)
        r == Track(View(S1, i), h)
    IN  [S |-> StoreView(S1, i, r.a), panic |-> r.panic]

\* A read with receiver i: what it leaves behind is checkInit's effect.
QueryOn(S, i) == checkInitOn(S, i)

Store == [heap |-> heap, inst |-> inst]

\* The events the side-by-side instances track: every kind, one activity and
\* one signal identity, the same event ids in every instance.
IsolatedEventsAt(id) ==
    {h \in EventsAt(id) :
        /\ h.EventType = EventTypeActivityTaskScheduled => h.ActivityID = "a1"
        /\ h.EventType = EventTypeSignalExternalWorkflowExecutionInitiated
           => h.SignalName = "N" /\ h.WorkflowID = "W"}

\* Instance i tracks the next event of its own history.
TrackOnInstance(i) ==
    /\ ~instPanicked[i]
    /\ instNextId[i] <= MaxIsolated
    /\ \E h \in IsolatedEventsAt(instNextId[i]) :
         LET r == TrackOn(Store, i, h)
             alone == Track(solo[i], h)
         IN  /\ heap' = r.S.heap
             /\ inst' = r.S.inst
             /\ instPanicked' = [instPanicked EXCEPT ![i] = r.panic]
             /\ solo' = [solo EXCEPT ![i] = alone.a]
    /\ instNextId' = [instNextId EXCEPT ![i] = @ + 1]
    /\ UNCHANGED singleVars

\* Instance i is queried (ActivityInfo, SignalInfo, AttemptsForActivity or
\* AttemptsForSignal).
QueryInstance(i) ==
    /\ ~instPanicked[i]
    /\ LET S1 == QueryOn(Store, i)
       IN  /\ heap' = S1.heap
           /\ inst' = S1.inst
    /\ solo' = [solo EXCEPT ![i] = checkInit(solo[i])]
    /\ UNCHANGED <<instNextId, instPanicked>>
    /\ UNCHANGED singleVars

IsolationNext == \E i \in Instances : TrackOnInstance(i) \/ QueryInstance(i)

IsolationSpec == Init /\ [][IsolationNext]_vars

(***************************************************************************)
(* C14.  Correlator instances are isolated: when two instances each track  *)
(* their own execution's history, the Track calls of the two interleaved   *)
(* in any order, each instance's state and query results are those         *)
(* obtained by tracking its own history alone (and it faults exactly when  *)
(* the lone run does); and no Track call on one instance changes any       *)
(* index of the other.                                                     *)
(***************************************************************************)
C14_Isolation ==
    /\ \A i \in Instances :
         LET v == View(Store, i)
         IN  /\ v = solo[i]
             /\ \A e \in 0..MaxIsolated :
                  /\ \A t \in ActivityTerminalTypes :
                       ActivityInfo(v, ActivityTerminalEvent(t, instNextId[i], e)).ret
                         = ActivityInfo(solo[i], ActivityTerminalEvent(t, instNextId[i], e)).ret
                  /\ \A t \in SignalTerminalTypes :
                       SignalInfo(v, SignalTerminalEvent(t, instNextId[i], e)).ret
                         = SignalInfo(solo[i], SignalTerminalEvent(t, instNextId[i], e)).ret
             /\ \A aid \in ActivityIDs, at \in ActivityTypes :
                  AttemptsForActivity(v, ActivityInfoValue(aid, at)).ret
                    = AttemptsForActivity(solo[i], ActivityInfoValue(aid, at)).ret
             /\ \A n \in SignalNames, w \in WorkflowIDs :
                  AttemptsForSignal(v, SignalInfoValue(n, w)).ret
                    = AttemptsForSignal(solo[i], SignalInfoValue(n, w)).ret
    /\ \A i \in Instances : \A h \in IsolatedEventsAt(instNextId[i]) :
         LET r == TrackOn(Store, i, h)
         IN  /\ r.panic = Track(solo[i], h).panic
             /\ \A j \in Instances \ {i} : View(r.S, j) = View(Store, j)

\* Both instances have tracked their histories to the end, the same event ids
\* in both: one holds a pending activity and no attempt count, the other an
\* attempt count and no pending activity.
C14_Witness ==
    /\ \A i \in Instances : instNextId[i] = MaxIsolated + 1 /\ ~instPanicked[i]
    /\ \E i \in Instances, j \in Instances :
         /\ KeySet(View(Store, i).Activities) # {}
         /\ KeySet(View(Store, i).ActivityAttempts) = {}
         /\ KeySet(View(Store, j).Activities) = {}
         /\ KeySet(View(Store, j).ActivityAttempts) # {}

(***************************************************************************)
(* C15.  Signal attempt counters of distinct durable identities are        *)
(* independent: for any two pending signals whose (SignalName, WorkflowID) *)
(* pairs differ, tracking a delivery-failed or signaled event for one      *)
(* never changes AttemptsForSignal of the other; that is, the derived      *)
(* counter key is injective over (SignalName, WorkflowID) pairs.           *)
(***************************************************************************)
C15_IndependentSignalCounters ==
    \A e1 \in 0..(nextId - 1), e2 \in 0..(nextId - 1) :
        (/\ FormatInt(e1) \in KeySet(cor.Signals)
         /\ FormatInt(e2) \in KeySet(cor.Signals)
         /\ cor.Signals.m[FormatInt(e1)] # cor.Signals.m[FormatInt(e2)])
        => LET one == cor.Signals.m[FormatInt(e1)]
               other == cor.Signals.m[FormatInt(e2)]
           IN  /\ signalIDFromInfo(one) # signalIDFromInfo(other)
               /\ \A t \in SignalTerminalTypes :
                    AttemptsForSignal(Track(cor, SignalTerminalEvent(t, nextId, e1)).a, other).ret
                      = AttemptsForSignal(cor, other).ret

\* C15 for the pairs whose derived keys differ: their counters are independent.
C15_DistinctKeys ==
    \A e1 \in 0..(nextId - 1), e2 \in 0..(nextId - 1) :
        (/\ FormatInt(e1) \in KeySet(cor.Signals)
         /\ FormatInt(e2) \in KeySet(cor.Signals)
         /\ signalIDFromInfo(cor.Signals.m[FormatInt(e1)])
              # signalIDFromInfo(cor.Signals.m[FormatInt(e2)]))
        => \A t \in SignalTerminalTypes :
             AttemptsForSignal(Track(cor, SignalTerminalEvent(t, nextId, e1)).a,
                               cor.Signals.m[FormatInt(e2)]).ret
               = AttemptsForSignal(cor, cor.Signals.m[FormatInt(e2)]).ret

(***************************************************************************)
(* The two index families and the event kinds of each.                     *)
(***************************************************************************)
ActivityKinds == {EventTypeActivityTaskScheduled} \cup ActivityTerminalTypes
SignalKinds == {EventTypeSignalExternalWorkflowExecutionInitiated} \cup SignalTerminalTypes
\* The events that can be tracked next.
NextEvents == IF nextId <= MaxEvents THEN EventsAt(nextId) ELSE {}

(***************************************************************************)
(* C16.  The activity and signal index families are disjoint in effect:    *)
(* tracking any activity-kind event (scheduled, completed, failed, timed   *)
(* out, canceled) leaves Signals and SignalAttempts unchanged, and         *)
(* tracking any signal-kind event (initiated, signaled, delivery failed)   *)
(* leaves Activities and ActivityAttempts unchanged, even when the         *)
(* referenced event id is a key of the other family's pending index.       *)
(***************************************************************************)
C16_Original ==
    \A h \in NextEvents :
        LET end == Track(cor, h).a
        IN  /\ h.EventType \in ActivityKinds
               => end.Signals = cor.Signals /\ end.SignalAttempts = cor.SignalAttempts
            /\ h.EventType \in SignalKinds
               => end.Activities = cor.Activities /\ end.ActivityAttempts = cor.ActivityAttempts

(***************************************************************************)
(* C16, amended.  Tracking any activity-kind event leaves the entries of   *)
(* Signals and SignalAttempts unchanged, and tracking any signal-kind      *)
(* event leaves the entries of Activities and ActivityAttempts unchanged,  *)
(* even when the referenced event id is a key of the other family's        *)
(* pending index; the only effect on the other family is that an index     *)
(* that was nil (never initialized) is an empty map afterwards.            *)
(***************************************************************************)
C16_Amended ==
    \A h \in NextEvents :
        LET end == Track(cor, h).a
        IN  /\ h.EventType \in ActivityKinds
               => /\ end.Signals = Materialized(cor).Signals
                  /\ end.SignalAttempts = Materialized(cor).SignalAttempts
            /\ h.EventType \in SignalKinds
               => /\ end.Activities = Materialized(cor).Activities
                  /\ end.ActivityAttempts = Materialized(cor).ActivityAttempts

\* An activity is pending under one event id and a signal under another, and
\* an event can be tracked next: an
\* activity-failed event that references the pending signal's id leaves the
\* signal family as it is, and a delivery-failed event that references the
\* pending activity's id leaves the activity family as it is.
C16_Witness ==
    /\ nextId <= MaxEvents
    /\ \E e \in 1..(nextId - 1), d \in 1..(nextId - 1) :
         /\ FormatInt(e) \in KeySet(cor.Signals) \ KeySet(cor.Activities)
         /\ FormatInt(d) \in KeySet(cor.Activities) \ KeySet(cor.Signals)
         /\ LET end == Track(cor, ActivityTerminalEvent(
                                      EventTypeActivityTaskFailed, nextId, e)).a
            IN  end.Signals = cor.Signals /\ end.SignalAttempts = cor.SignalAttempts
         /\ LET end == Track(cor, SignalTerminalEvent(
                                      EventTypeSignalExternalWorkflowExecutionFailed,
                                      nextId, d)).a
            IN  end.Activities = cor.Activities /\ end.ActivityAttempts = cor.ActivityAttempts

(***************************************************************************)
(* C17.  In every state reachable from the empty correlator, every entry   *)
(* stored in ActivityAttempts or SignalAttempts has a value of at least 1  *)
(* and a non-empty key; and in any single Track step the counter of an     *)
(* identity stays the same, increases by exactly 1, or is removed (reads   *)
(* as 0): it never decreases to a non-zero value.                          *)
(***************************************************************************)
C17_CounterInvariant ==
    /\ \A k \in KeySet(cor.ActivityAttempts) : k # "" /\ cor.ActivityAttempts.m[k] >= 1
    /\ \A k \in KeySet(cor.SignalAttempts) : k # "" /\ cor.SignalAttempts.m[k] >= 1
    /\ \A k \in KeySet(prev.ActivityAttempts) \cup KeySet(cor.ActivityAttempts) :
         LET old == MapIndex(prev.ActivityAttempts, k, 0)
             new == MapIndex(cor.ActivityAttempts, k, 0)
         IN  new = old \/ new = old + 1 \/ new = 0
    /\ \A k \in KeySet(prev.SignalAttempts) \cup KeySet(cor.SignalAttempts) :
         LET old == MapIndex(prev.SignalAttempts, k, 0)
             new == MapIndex(cor.SignalAttempts, k, 0)
         IN  new = old \/ new = old + 1 \/ new = 0

\* The last Track call raised an activity attempt counter that was already
\* stored, by exactly 1.
C17_Witness ==
    /\ op.name = "Track"
    /\ op.type \in {EventTypeActivityTaskFailed, EventTypeActivityTaskTimedOut}
    /\ \E k \in KeySet(prev.ActivityAttempts) :
         /\ prev.ActivityAttempts.m[k] >= 1
         /\ MapIndex(cor.ActivityAttempts, k, 0) = prev.ActivityAttempts.m[k] + 1

====
